---------------------------- MODULE Spec2Model ----------------------------
(***************************************************************************)
(* ExpensePartner: the settlement / balance engine                         *)
(*   src/lib/services/group.service.ts  (expense-validation.ts and         *)
(*   balance-calculator.ts are concatenated into this file)                *)
(*                                                                         *)
(* Amounts are JavaScript numbers, i.e. IEEE-754 binary64 values.  The     *)
(* model keeps them as such: a finite number is a sign and an exact        *)
(* magnitude held in fixed point (unit 2^-72, limbs of 18 bits), and every *)
(* arithmetic operation computes the exact result and then rounds it to 53 *)
(* significant bits, ties to even, as the hardware does.  Decimal inputs   *)
(* such as 59.99 are therefore the nearest binary64 value, not the decimal *)
(* itself, and 0.1 + 0.2 is not 0.3.                                       *)
(***************************************************************************)
EXTENDS Integers, Sequences, FiniteSets, TLC

(***************************************************************************)
(* Binary64 arithmetic                                                     *)
(***************************************************************************)
\* Limb base 2^18 and limb count: four fraction limbs (72 bits) and one
\* integer limb, least significant limb first.  The integer limb is not
\* reduced modulo the base, so it holds the whole integer part.
LimbBase == 262144
LimbBits == 18
NumLimbs == 5
FracLimbs == 4
MantissaBits == 53

BigZero == <<0, 0, 0, 0, 0>>

BigOfInt(n) == <<0, 0, 0, 0, n>>

RECURSIVE BigAddR(_, _, _, _)
BigAddR(a, b, i, c) ==
  LET s == a[i] + b[i] + c
  IN  IF i = NumLimbs THEN <<s>>
      ELSE <<s % LimbBase>> \o BigAddR(a, b, i + 1, s \div LimbBase)

BigAdd(a, b) == BigAddR(a, b, 1, 0)

\* a - b for a >= b (the borrow is the floor quotient -1)
RECURSIVE BigSubR(_, _, _, _)
BigSubR(a, b, i, c) ==
  LET s == a[i] - b[i] + c
  IN  IF i = NumLimbs THEN <<s>>
      ELSE <<s % LimbBase>> \o BigSubR(a, b, i + 1, s \div LimbBase)

BigSub(a, b) == BigSubR(a, b, 1, 0)

RECURSIVE BigCmpR(_, _, _)
BigCmpR(a, b, i) ==
  IF i = 0 THEN 0
  ELSE IF a[i] > b[i] THEN 1
  ELSE IF a[i] < b[i] THEN -1
  ELSE BigCmpR(a, b, i - 1)

\* -1, 0 or 1 as a < b, a = b, a > b
BigCmp(a, b) == BigCmpR(a, b, NumLimbs)

RECURSIVE BigMulSmallR(_, _, _, _)
BigMulSmallR(a, k, i, c) ==
  LET s == a[i] * k + c
  IN  IF i = NumLimbs THEN <<s>>
      ELSE <<s % LimbBase>> \o BigMulSmallR(a, k, i + 1, s \div LimbBase)

\* exact product with a small natural k
BigMulSmall(a, k) == BigMulSmallR(a, k, 1, 0)

RECURSIVE BigDivSmallR(_, _, _, _)
BigDivSmallR(a, d, i, r) ==
  LET cur == r * LimbBase + a[i]
  IN  IF i = 1 THEN [q |-> <<cur \div d>>, r |-> cur % d]
      ELSE LET rest == BigDivSmallR(a, d, i - 1, cur % d)
           IN  [q |-> rest.q \o <<cur \div d>>, r |-> rest.r]

\* floor quotient (to 72 fraction bits) and remainder of a / d, d a small
\* positive natural
BigDivSmall(a, d) == BigDivSmallR(a, d, NumLimbs, 0)

RECURSIVE NatBitLen(_)
NatBitLen(n) == IF n = 0 THEN 0 ELSE 1 + NatBitLen(n \div 2)

RECURSIVE BigBitLenR(_, _)
BigBitLenR(a, i) ==
  IF i = 0 THEN 0
  ELSE IF a[i] # 0 THEN LimbBits * (i - 1) + NatBitLen(a[i])
  ELSE BigBitLenR(a, i - 1)

BigBitLen(a) == BigBitLenR(a, NumLimbs)

\* the low p bits of a (p below the integer limb)
BigLow(a, p) ==
  [i \in 1..NumLimbs |->
     IF i = NumLimbs THEN 0
     ELSE IF LimbBits * i <= p THEN a[i]
     ELSE IF LimbBits * (i - 1) >= p THEN 0
     ELSE a[i] % (2 ^ (p - LimbBits * (i - 1)))]

\* 2^p in units of 2^-72 (p below the integer limb)
BigPow2(p) ==
  [i \in 1..NumLimbs |->
     IF i = (p \div LimbBits) + 1 THEN 2 ^ (p % LimbBits) ELSE 0]

BigBit(a, p) == (a[(p \div LimbBits) + 1] \div (2 ^ (p % LimbBits))) % 2

\* Round an exact magnitude to 53 significant bits, ties to even.  sticky
\* says that the exact value lies strictly above a (a truncated quotient).
BigRound53(a, sticky) ==
  LET p == BigBitLen(a) - MantissaBits
  IN  IF p <= 0 THEN a
      ELSE LET low   == BigLow(a, p)
               half  == BigPow2(p - 1)
               trunc == BigSub(a, low)
               c     == BigCmp(low, half)
               up    == \/ c = 1
                        \/ c = 0 /\ sticky
                        \/ c = 0 /\ ~sticky /\ BigBit(a, p) = 1
           IN  IF up THEN BigAdd(trunc, BigPow2(p)) ELSE trunc

\* A JavaScript value of type number | null | undefined.
\*   k = "num": finite, sign neg and magnitude m (zero has neg = FALSE:
\*              -0 and 0 are not distinguished by any operation used here)
\*   k = "inf": +Infinity / -Infinity,  k = "nan": NaN
\*   k = "null", "undef": the missing amounts validateNotEmpty tests for
Num(neg, m) == [k |-> "num", neg |-> (neg /\ m # BigZero), m |-> m]
NaN == [k |-> "nan", neg |-> FALSE, m |-> BigZero]
Infinity == [k |-> "inf", neg |-> FALSE, m |-> BigZero]
NegInfinity == [k |-> "inf", neg |-> TRUE, m |-> BigZero]
Null == [k |-> "null", neg |-> FALSE, m |-> BigZero]
Undefined == [k |-> "undef", neg |-> FALSE, m |-> BigZero]
Zero == Num(FALSE, BigZero)

\* ToNumber: null is 0, undefined is NaN
ToNumber(x) == IF x.k = "null" THEN Zero ELSE IF x.k = "undef" THEN NaN ELSE x

IsFiniteNum(x) == x.k = "num"

\* the number n for an integer n
FromInt(n) == IF n < 0 THEN Num(TRUE, BigOfInt(-n)) ELSE Num(FALSE, BigOfInt(n))

\* the integer value of an integer-valued number
ToInt(x) == IF x.neg THEN -(x.m[NumLimbs]) ELSE x.m[NumLimbs]

FNeg(x) ==
  IF x.k = "num" THEN Num(~x.neg, x.m)
  ELSE IF x.k = "inf" THEN [x EXCEPT !.neg = ~x.neg]
  ELSE x

FAbs(x) == IF x.k \in {"num", "inf"} THEN [x EXCEPT !.neg = FALSE] ELSE x

\* x + y
FAdd(x0, y0) ==
  LET x == ToNumber(x0)
      y == ToNumber(y0)
  IN  IF x.k = "nan" \/ y.k = "nan" THEN NaN
      ELSE IF x.k = "inf" /\ y.k = "inf"
        THEN IF x.neg = y.neg THEN x ELSE NaN
      ELSE IF x.k = "inf" THEN x
      ELSE IF y.k = "inf" THEN y
      ELSE IF x.neg = y.neg
        THEN Num(x.neg, BigRound53(BigAdd(x.m, y.m), FALSE))
      ELSE IF BigCmp(x.m, y.m) >= 0
        THEN Num(x.neg, BigRound53(BigSub(x.m, y.m), FALSE))
      ELSE Num(y.neg, BigRound53(BigSub(y.m, x.m), FALSE))

\* x - y
FSub(x, y) == FAdd(x, FNeg(ToNumber(y)))

\* x * k for a small positive integer k
FMulInt(x0, k) ==
  LET x == ToNumber(x0)
  IN  IF x.k # "num" THEN x
      ELSE Num(x.neg, BigRound53(BigMulSmall(x.m, k), FALSE))

\* x / d for a small positive integer d
FDivInt(x0, d) ==
  LET x == ToNumber(x0)
  IN  IF x.k # "num" THEN x
      ELSE LET qr == BigDivSmall(x.m, d)
           IN  Num(x.neg, BigRound53(qr.q, qr.r # 0))

\* comparisons; every comparison with NaN is false
FCmpOk(x, y) == x.k # "nan" /\ y.k # "nan"

FLtNum(x, y) ==
  IF x.k = "inf" THEN x.neg /\ ~(y.k = "inf" /\ y.neg)
  ELSE IF y.k = "inf" THEN ~y.neg
  ELSE IF x.neg /\ ~y.neg THEN TRUE
  ELSE IF ~x.neg /\ y.neg THEN FALSE
  ELSE IF x.neg THEN BigCmp(x.m, y.m) = 1
  ELSE BigCmp(x.m, y.m) = -1

FLt(x0, y0) ==
  LET x == ToNumber(x0)
      y == ToNumber(y0)
  IN  FCmpOk(x, y) /\ FLtNum(x, y)

FGt(x, y) == FLt(y, x)

FLe(x0, y0) ==
  LET x == ToNumber(x0)
      y == ToNumber(y0)
  IN  FCmpOk(x, y) /\ ~FLtNum(y, x)

\* x === y for numbers (no coercion: null and undefined equal only themselves)
FStrictEq(x, y) == x.k # "nan" /\ x = y

FracIsHalfOrMore(m) == m[FracLimbs] >= LimbBase \div 2

FracIsMoreThanHalf(m) ==
  \/ m[FracLimbs] > LimbBase \div 2
  \/ m[FracLimbs] = LimbBase \div 2 /\ \E i \in 1..(FracLimbs - 1) : m[i] # 0

\* Math.round: the nearest integer, a tie going towards +Infinity
MathRound(x0) ==
  LET x == ToNumber(x0)
  IN  IF x.k # "num" THEN x
      ELSE IF ~x.neg
        THEN FromInt(x.m[NumLimbs] + (IF FracIsHalfOrMore(x.m) THEN 1 ELSE 0))
      ELSE FromInt(-(x.m[NumLimbs] + (IF FracIsMoreThanHalf(x.m) THEN 1 ELSE 0)))

\* Math.floor
MathFloor(x0) ==
  LET x == ToNumber(x0)
  IN  IF x.k # "num" THEN x
      ELSE IF ~x.neg THEN FromInt(x.m[NumLimbs])
      ELSE FromInt(-(x.m[NumLimbs]
                     + (IF \E i \in 1..FracLimbs : x.m[i] # 0 THEN 1 ELSE 0)))

\* Math.max(x, y)
MathMax(x, y) ==
  IF x.k = "nan" \/ y.k = "nan" THEN NaN ELSE IF FLt(x, y) THEN y ELSE x

\* The number a decimal literal denotes: the binary64 value nearest to
\* mills / 1000 (what parseFloat and the JSON parser return for it).
Dec(mills) ==
  LET a  == IF mills < 0 THEN -mills ELSE mills
      qr == BigDivSmall(BigOfInt(a), 1000)
  IN  Num(mills < 0, BigRound53(qr.q, qr.r # 0))

\* the number nearest to cents / 100
FromCents(c) == Dec(10 * c)

(***************************************************************************)
(* expense-validation.ts                                                   *)
(***************************************************************************)
\* const FLOAT_EPSILON = 0.01
FLOAT_EPSILON == Dec(10)

Valid == [valid |-> TRUE]
\* a failure returned without its reason
InvalidNoReason(reason) == [valid |-> FALSE]

Invalid(reason) == [valid |-> FALSE, error |-> reason]

MsgGreaterThanZero == "Amount must be greater than zero"
MsgValidNumber == "Amount must be a valid number"
MsgEnterAmount == "Please enter an amount"
MsgNegativeSplit == "Split amounts cannot be negative"
\* `Split total (Rs sum) must equal expense amount (Rs amount)`: the message
\* text with the two numbers it embeds (toFixed(2) is not applied here)
MsgSplitTotal(sum, amount) ==
  <<"Split total must equal expense amount", sum, amount>>

\* validateAmount giving one reason for every amount it refuses
validateAmountOneReason(amount) ==
  IF FLe(amount, Zero) \/ ~IsFiniteNum(amount) THEN Invalid(MsgGreaterThanZero)
  ELSE Valid

validateAmount(amount) ==
  IF FLe(amount, Zero) THEN Invalid(MsgGreaterThanZero)
  ELSE IF ~IsFiniteNum(amount) THEN Invalid(MsgValidNumber)
  ELSE Valid

validateNotEmpty(amount) ==
  IF FStrictEq(amount, Zero) \/ amount = Undefined \/ amount = Null
  THEN Invalid(MsgEnterAmount)
  ELSE Valid

\* splits.reduce((acc, s) => acc + s.amount, 0)
RECURSIVE SumSplitsR(_, _, _)
SumSplitsR(splits, i, acc) ==
  IF i > Len(splits) THEN acc
  ELSE SumSplitsR(splits, i + 1, FAdd(acc, splits[i].amount))

SumSplits(splits) == SumSplitsR(splits, 1, Zero)

\* validateSplitTotals without the comparison of the sum with the amount
validateSplitTotalsNoSum(amount, splits) ==
  IF \E i \in 1..Len(splits) : FLt(splits[i].amount, Zero)
  THEN Invalid(MsgNegativeSplit)
  ELSE Valid

\* validateSplitTotals without the check of the sign of the splits
validateSplitTotalsNoSign(amount, splits) ==
  LET sum  == SumSplits(splits)
      diff == FAbs(FSub(sum, amount))
  IN  IF FGt(diff, FLOAT_EPSILON) THEN Invalid(MsgSplitTotal(sum, amount))
      ELSE Valid

validateSplitTotals(amount, splits) ==
  LET sum  == SumSplits(splits)
      diff == FAbs(FSub(sum, amount))
  IN  IF FGt(diff, FLOAT_EPSILON) THEN Invalid(MsgSplitTotal(sum, amount))
      ELSE IF \E i \in 1..Len(splits) : FLt(splits[i].amount, Zero)
        THEN Invalid(MsgNegativeSplit)
      ELSE Valid

\* validateExpenseInput running the positive-and-finite check before the
\* not-empty check
validateExpenseInputAmountFirst(params) ==
  LET amount    == params.amount
      splitType == params.splitType
      splits    == params.splits
      notEmpty  == validateNotEmpty(amount)
      amountOk  == validateAmount(amount)
      splitsOk  == validateSplitTotals(amount, splits)
  IN  IF ~amountOk.valid THEN amountOk
      ELSE IF ~notEmpty.valid THEN notEmpty
      ELSE IF splitType = "custom" /\ ~splitsOk.valid THEN splitsOk
      ELSE Valid

\* validateExpenseInput examining the splits whatever the split type
validateExpenseInputAnyType(params) ==
  LET amount    == params.amount
      splitType == params.splitType
      splits    == params.splits
      notEmpty  == validateNotEmpty(amount)
      amountOk  == validateAmount(amount)
      splitsOk  == validateSplitTotals(amount, splits)
  IN  IF ~notEmpty.valid THEN notEmpty
      ELSE IF ~amountOk.valid THEN amountOk
      ELSE IF ~splitsOk.valid THEN splitsOk
      ELSE Valid

\* validateExpenseInput without the not-empty check
validateExpenseInputNoEmptyCheck(params) ==
  LET amount    == params.amount
      splitType == params.splitType
      splits    == params.splits
      amountOk  == validateAmount(amount)
      splitsOk  == validateSplitTotals(amount, splits)
  IN  IF ~amountOk.valid THEN amountOk
      ELSE IF splitType = "custom" /\ ~splitsOk.valid THEN splitsOk
      ELSE Valid

validateExpenseInput(params) ==
  LET amount    == params.amount
      splitType == params.splitType
      splits    == params.splits
      notEmpty  == validateNotEmpty(amount)
      amountOk  == validateAmount(amount)
      splitsOk  == validateSplitTotals(amount, splits)
  IN  IF ~notEmpty.valid THEN notEmpty
      ELSE IF ~amountOk.valid THEN amountOk
      ELSE IF splitType = "custom" /\ ~splitsOk.valid THEN splitsOk
      ELSE Valid

(***************************************************************************)
(* balance-calculator.ts                                                   *)
(***************************************************************************)
\* expense.paidBy?.id; the empty string stands for every falsy outcome
\* (no paidBy, no id, empty id)
NoId == ""
PayerId(expense) == expense.paidBy.id

\* Math.round replaced by rounding half away from zero, and round2 built on it
MathRoundHalfAwayFromZero(x0) ==
  LET x == ToNumber(x0)
  IN  IF x.k # "num" THEN x
      ELSE IF ~x.neg
        THEN FromInt(x.m[NumLimbs] + (IF FracIsHalfOrMore(x.m) THEN 1 ELSE 0))
      ELSE FromInt(-(x.m[NumLimbs] + (IF FracIsHalfOrMore(x.m) THEN 1 ELSE 0)))

round2HalfAwayFromZero(n) == FDivInt(MathRoundHalfAwayFromZero(FMulInt(n, 100)), 100)

\* Math.round(n * 100) / 100
round2(n) == FDivInt(MathRound(FMulInt(n, 100)), 100)

One == FromInt(1)

\* buildEqualSplits handing the extra cent to one participant too many
\* (i <= remainder)
buildEqualSplitsOffByOne(amount, participantIds) ==
  LET n          == Len(participantIds)
      totalCents == MathRound(FMulInt(amount, 100))
      shareCents == MathFloor(FDivInt(totalCents, n))
      remainder  == FSub(totalCents, FMulInt(shareCents, n))
  IN  IF n = 0 THEN <<>>
      ELSE [i \in 1..n |->
              LET cents == FAdd(shareCents,
                                IF FLe(FromInt(i - 1), remainder)
                                THEN One ELSE Zero)
              IN  [userId |-> participantIds[i], amount |-> FDivInt(cents, 100)]]

\* buildEqualSplits booking the whole amount on nobody when there are no
\* participants
buildEqualSplitsWholeToNobody(amount, participantIds) ==
  LET n          == Len(participantIds)
      totalCents == MathRound(FMulInt(amount, 100))
      shareCents == MathFloor(FDivInt(totalCents, n))
      remainder  == FSub(totalCents, FMulInt(shareCents, n))
  IN  IF n = 0 THEN <<[userId |-> NoId, amount |-> FDivInt(totalCents, 100)]>>
      ELSE [i \in 1..n |->
              LET cents == FAdd(shareCents,
                                IF FLt(FromInt(i - 1), remainder)
                                THEN One ELSE Zero)
              IN  [userId |-> participantIds[i], amount |-> FDivInt(cents, 100)]]

buildEqualSplits(amount, participantIds) ==
  LET n          == Len(participantIds)
      totalCents == MathRound(FMulInt(amount, 100))
      shareCents == MathFloor(FDivInt(totalCents, n))
      remainder  == FSub(totalCents, FMulInt(shareCents, n))
  IN  IF n = 0 THEN <<>>
      ELSE [i \in 1..n |->
              LET cents == FAdd(shareCents,
                                IF FLt(FromInt(i - 1), remainder)
                                THEN One ELSE Zero)
              IN  [userId |-> participantIds[i], amount |-> FDivInt(cents, 100)]]

\* balances[id] ?? 0
BalanceOf(balances, id) ==
  IF id \in DOMAIN balances THEN balances[id] ELSE Zero

\* balances[id] = v
SetBalance(balances, id, v) ==
  [x \in (DOMAIN balances) \cup {id} |-> IF x = id THEN v ELSE balances[x]]

\* expense.splits.forEach(...) of calculateBalances
RECURSIVE ApplySplits(_, _, _)
ApplySplits(balances, splits, i) ==
  IF i > Len(splits) THEN balances
  ELSE LET split     == splits[i]
           oweAmount == round2(split.amount)
       IN  ApplySplits(
             SetBalance(balances, split.userId,
                        round2(FSub(BalanceOf(balances, split.userId), oweAmount))),
             splits, i + 1)

\* the split loop without the rounding of the running balance
RECURSIVE ApplySplitsUnrounded(_, _, _)
ApplySplitsUnrounded(balances, splits, i) ==
  IF i > Len(splits) THEN balances
  ELSE LET split     == splits[i]
           oweAmount == round2(split.amount)
       IN  ApplySplitsUnrounded(
             SetBalance(balances, split.userId,
                        FSub(BalanceOf(balances, split.userId), oweAmount)),
             splits, i + 1)

\* the loop body without the rounding of the running balance
ApplyExpenseUnrounded(balances, expense) ==
  LET payerId == PayerId(expense)
      amount  == round2(expense.amount)
  IN  IF payerId = NoId THEN balances
      ELSE ApplySplitsUnrounded(
             SetBalance(balances, payerId,
                        FAdd(BalanceOf(balances, payerId), amount)),
             expense.splits, 1)

\* the loop body with the payer test guarding the credit only: the splits of
\* an expense without a payer are still debited
ApplyExpenseDebitsUnpaid(balances, expense) ==
  LET payerId == PayerId(expense)
      amount  == round2(expense.amount)
  IN  IF payerId = NoId THEN ApplySplits(balances, expense.splits, 1)
      ELSE ApplySplits(
             SetBalance(balances, payerId,
                        round2(FAdd(BalanceOf(balances, payerId), amount))),
             expense.splits, 1)

\* the loop body leaving out the payer's own split
ApplyExpensePayerNotDebited(balances, expense) ==
  LET payerId == PayerId(expense)
      amount  == round2(expense.amount)
  IN  IF payerId = NoId THEN balances
      ELSE ApplySplits(
             SetBalance(balances, payerId,
                        round2(FAdd(BalanceOf(balances, payerId), amount))),
             SelectSeq(expense.splits, LAMBDA sp : sp.userId # payerId), 1)

\* the loop body without the test of the payer id: the expense is booked on
\* whatever id it has
ApplyExpenseNoPayerTest(balances, expense) ==
  LET payerId == PayerId(expense)
      amount  == round2(expense.amount)
  IN  ApplySplits(
        SetBalance(balances, payerId,
                   round2(FAdd(BalanceOf(balances, payerId), amount))),
        expense.splits, 1)

\* the loop body without the credit of the amount to the payer
ApplyExpenseNoCredit(balances, expense) ==
  LET payerId == PayerId(expense)
  IN  IF payerId = NoId THEN balances
      ELSE ApplySplits(balances, expense.splits, 1)

\* the body of expenses.forEach(...) of calculateBalances
ApplyExpense(balances, expense) ==
  LET payerId == PayerId(expense)
      amount  == round2(expense.amount)
  IN  IF payerId = NoId THEN balances
      ELSE ApplySplits(
             SetBalance(balances, payerId,
                        round2(FAdd(BalanceOf(balances, payerId), amount))),
             expense.splits, 1)

RECURSIVE FoldExpenses(_, _, _)
FoldExpenses(balances, expenses, i) ==
  IF i > Len(expenses) THEN balances
  ELSE FoldExpenses(ApplyExpense(balances, expenses[i]), expenses, i + 1)

\* calculateBalances without the initialisation of the members to zero
calculateBalancesNoInit(expenses, memberIds) ==
  FoldExpenses([id \in {} |-> Zero], expenses, 1)

calculateBalances(expenses, memberIds) ==
  FoldExpenses([id \in {memberIds[i] : i \in 1..Len(memberIds)} |-> Zero],
               expenses, 1)

\* Record<string, number> with its insertion order (the order Object.entries
\* lists the keys in): a sequence of [userId, amount] entries
EntryIndex(map, key) ==
  IF \E i \in 1..Len(map) : map[i].userId = key
  THEN CHOOSE i \in 1..Len(map) : map[i].userId = key
  ELSE 0

\* map[key] ?? 0
MapGet(map, key) ==
  LET i == EntryIndex(map, key) IN IF i = 0 THEN Zero ELSE map[i].amount

\* map[key] = v
MapPut(map, key, v) ==
  LET i == EntryIndex(map, key)
  IN  IF i = 0 THEN Append(map, [userId |-> key, amount |-> v])
      ELSE [map EXCEPT ![i].amount = v]

\* the entries of the map without the filter
RECURSIVE AllEntries(_, _)
AllEntries(map, i) ==
  IF i > Len(map) THEN <<>>
  ELSE <<[userId |-> map[i].userId, amount |-> round2(map[i].amount)]>>
         \o AllEntries(map, i + 1)

\* the filter written amt >= 0
RECURSIVE NonNegativeEntries(_, _)
NonNegativeEntries(map, i) ==
  IF i > Len(map) THEN <<>>
  ELSE (IF FLe(Zero, map[i].amount)
        THEN <<[userId |-> map[i].userId, amount |-> round2(map[i].amount)]>>
        ELSE <<>>) \o NonNegativeEntries(map, i + 1)

\* Object.entries(map).filter(([, amt]) => amt > 0)
\*   .map(([userId, amount]) => ({ userId, amount: round2(amount) }))
RECURSIVE PositiveEntries(_, _)
PositiveEntries(map, i) ==
  IF i > Len(map) THEN <<>>
  ELSE (IF FGt(map[i].amount, Zero)
        THEN <<[userId |-> map[i].userId, amount |-> round2(map[i].amount)]>>
        ELSE <<>>) \o PositiveEntries(map, i + 1)

\* the splits loop filling getMap whoever paid the expense
RECURSIVE BreakdownSplitsGetFromAnyPayer(_, _, _, _, _)
BreakdownSplitsGetFromAnyPayer(acc, payerId, splits, currentUserId, i) ==
  IF i > Len(splits) THEN acc
  ELSE LET split == splits[i]
           amt   == round2(split.amount)
           mine  == split.userId = currentUserId
           owed  == IF mine THEN FAdd(acc.totalOwed, amt) ELSE acc.totalOwed
           give  == IF mine /\ payerId # currentUserId
                    THEN MapPut(acc.giveMap, payerId,
                                round2(FAdd(MapGet(acc.giveMap, payerId), amt)))
                    ELSE acc.giveMap
           get   == IF split.userId # currentUserId
                    THEN MapPut(acc.getMap, split.userId,
                                round2(FAdd(MapGet(acc.getMap, split.userId), amt)))
                    ELSE acc.getMap
       IN  BreakdownSplitsGetFromAnyPayer(
             [acc EXCEPT !.totalOwed = owed, !.giveMap = give, !.getMap = get],
             payerId, splits, currentUserId, i + 1)

\* the splits loop adding to totalOwed only when someone else paid
RECURSIVE BreakdownSplitsOwedToOthers(_, _, _, _, _)
BreakdownSplitsOwedToOthers(acc, payerId, splits, currentUserId, i) ==
  IF i > Len(splits) THEN acc
  ELSE LET split == splits[i]
           amt   == round2(split.amount)
           mine  == split.userId = currentUserId
           owed  == IF mine /\ payerId # currentUserId
                    THEN FAdd(acc.totalOwed, amt) ELSE acc.totalOwed
           give  == IF mine /\ payerId # currentUserId
                    THEN MapPut(acc.giveMap, payerId,
                                round2(FAdd(MapGet(acc.giveMap, payerId), amt)))
                    ELSE acc.giveMap
           get   == IF payerId = currentUserId /\ split.userId # currentUserId
                    THEN MapPut(acc.getMap, split.userId,
                                round2(FAdd(MapGet(acc.getMap, split.userId), amt)))
                    ELSE acc.getMap
       IN  BreakdownSplitsOwedToOthers(
             [acc EXCEPT !.totalOwed = owed, !.giveMap = give, !.getMap = get],
             payerId, splits, currentUserId, i + 1)

\* the splits loop adding the split amounts to getMap as they are, without
\* rounding them to cents
RECURSIVE BreakdownSplitsGetUnrounded(_, _, _, _, _)
BreakdownSplitsGetUnrounded(acc, payerId, splits, currentUserId, i) ==
  IF i > Len(splits) THEN acc
  ELSE LET split == splits[i]
           amt   == round2(split.amount)
           mine  == split.userId = currentUserId
           owed  == IF mine THEN FAdd(acc.totalOwed, amt) ELSE acc.totalOwed
           give  == IF mine /\ payerId # currentUserId
                    THEN MapPut(acc.giveMap, payerId,
                                round2(FAdd(MapGet(acc.giveMap, payerId), amt)))
                    ELSE acc.giveMap
           get   == IF payerId = currentUserId /\ split.userId # currentUserId
                    THEN MapPut(acc.getMap, split.userId,
                                FAdd(MapGet(acc.getMap, split.userId), split.amount))
                    ELSE acc.getMap
       IN  BreakdownSplitsGetUnrounded(
             [acc EXCEPT !.totalOwed = owed, !.giveMap = give, !.getMap = get],
             payerId, splits, currentUserId, i + 1)

\* expense.splits.forEach(...) of getSettlementBreakdown
RECURSIVE BreakdownSplits(_, _, _, _, _)
BreakdownSplits(acc, payerId, splits, currentUserId, i) ==
  IF i > Len(splits) THEN acc
  ELSE LET split == splits[i]
           amt   == round2(split.amount)
           mine  == split.userId = currentUserId
           owed  == IF mine THEN FAdd(acc.totalOwed, amt) ELSE acc.totalOwed
           give  == IF mine /\ payerId # currentUserId
                    THEN MapPut(acc.giveMap, payerId,
                                round2(FAdd(MapGet(acc.giveMap, payerId), amt)))
                    ELSE acc.giveMap
           get   == IF payerId = currentUserId /\ split.userId # currentUserId
                    THEN MapPut(acc.getMap, split.userId,
                                round2(FAdd(MapGet(acc.getMap, split.userId), amt)))
                    ELSE acc.getMap
       IN  BreakdownSplits([acc EXCEPT !.totalOwed = owed, !.giveMap = give,
                                       !.getMap = get],
                           payerId, splits, currentUserId, i + 1)

\* the body of the loop adding to totalPaid what the splits cover instead
\* of the full amount
BreakdownExpensePaidFromSplits(acc, expense, currentUserId) ==
  LET payerId == PayerId(expense)
      after   == BreakdownSplits(acc, payerId, expense.splits, currentUserId, 1)
  IN  IF payerId = NoId THEN acc
      ELSE IF payerId = currentUserId
        THEN [after EXCEPT !.totalPaid =
                FAdd(after.totalPaid, round2(SumSplits(expense.splits)))]
      ELSE after

\* the body of the loop without the test of the payer id: the splits of an
\* expense without payer are read as well
BreakdownExpenseNoPayerTest(acc, expense, currentUserId) ==
  LET payerId == PayerId(expense)
      after   == BreakdownSplits(acc, payerId, expense.splits, currentUserId, 1)
  IN  IF payerId = currentUserId
        THEN [after EXCEPT !.totalPaid = FAdd(after.totalPaid, round2(expense.amount))]
      ELSE after

\* the body of expenses.forEach(...) of getSettlementBreakdown
BreakdownExpense(acc, expense, currentUserId) ==
  LET payerId == PayerId(expense)
      after   == BreakdownSplits(acc, payerId, expense.splits, currentUserId, 1)
  IN  IF payerId = NoId THEN acc
      ELSE IF payerId = currentUserId
        THEN [after EXCEPT !.totalPaid = FAdd(after.totalPaid, round2(expense.amount))]
      ELSE after

RECURSIVE BreakdownFold(_, _, _, _)
BreakdownFold(acc, expenses, currentUserId, i) ==
  IF i > Len(expenses) THEN acc
  ELSE BreakdownFold(BreakdownExpense(acc, expenses[i], currentUserId),
                     expenses, currentUserId, i + 1)

\* getBack written without the clamp at zero
getSettlementBreakdownNoClamp(expenses, currentUserId) ==
  LET acc == BreakdownFold([totalOwed |-> Zero, totalPaid |-> Zero,
                            giveMap |-> <<>>, getMap |-> <<>>],
                           expenses, currentUserId, 1)
      totalOwed == round2(acc.totalOwed)
      totalPaid == round2(acc.totalPaid)
  IN  [totalOwed |-> totalOwed,
       totalPaid |-> totalPaid,
       getBack   |-> round2(FSub(totalPaid, totalOwed)),
       youGive   |-> PositiveEntries(acc.giveMap, 1),
       youGet    |-> PositiveEntries(acc.getMap, 1)]

\* getBack taken from the youGet list instead of the two totals
getSettlementBreakdownGetBackFromYouGet(expenses, currentUserId) ==
  LET acc == BreakdownFold([totalOwed |-> Zero, totalPaid |-> Zero,
                            giveMap |-> <<>>, getMap |-> <<>>],
                           expenses, currentUserId, 1)
      totalOwed == round2(acc.totalOwed)
      totalPaid == round2(acc.totalPaid)
      youGet    == PositiveEntries(acc.getMap, 1)
  IN  [totalOwed |-> totalOwed,
       totalPaid |-> totalPaid,
       getBack   |-> round2(SumSplits(youGet)),
       youGive   |-> PositiveEntries(acc.giveMap, 1),
       youGet    |-> youGet]

getSettlementBreakdown(expenses, currentUserId) ==
  LET acc == BreakdownFold([totalOwed |-> Zero, totalPaid |-> Zero,
                            giveMap |-> <<>>, getMap |-> <<>>],
                           expenses, currentUserId, 1)
      totalOwed == round2(acc.totalOwed)
      totalPaid == round2(acc.totalPaid)
  IN  [totalOwed |-> totalOwed,
       totalPaid |-> totalPaid,
       getBack   |-> round2(MathMax(Zero, FSub(totalPaid, totalOwed))),
       youGive   |-> PositiveEntries(acc.giveMap, 1),
       youGet    |-> PositiveEntries(acc.getMap, 1)]

(***************************************************************************)
(* Inputs                                                                  *)
(***************************************************************************)
\* bounds of the model
MaxCents == 30
MaxParticipants == 4
MaxSplits == 2
MaxExpenses == 2

SplitTypes == {"equal", "custom"}

Split(userId, mills) == [userId |-> userId, amount |-> Dec(mills)]

ParticipantNames == <<"a", "b", "c", "d", "e", "f">>
Participants(n) == SubSeq(ParticipantNames, 1, n)

\* amounts handed to buildEqualSplits: every whole-cent amount up to
\* MaxCents, some larger and some sub-cent decimals, and the values that are
\* not positive finite numbers
BuildAmounts ==
  {FromCents(c) : c \in 1..MaxCents}
    \cup {Dec(m) : m \in {100000, 10000, 1005, 125, 4, 33335, -1000, -50}}
    \cup {Zero, NaN, Infinity, NegInfinity}

\* amounts and split lists handed to validateExpenseInput
ValidateAmounts ==
  {Null, Undefined, Zero, NaN, Infinity, NegInfinity}
    \cup {Dec(m) : m \in {-1000, 300, 1000, 100000}}

ValidateSplitMills == {0, 100, 200, 40000, 59990, 99990, 100010, -500, 1500}

RECURSIVE SplitListsOfLen(_)
SplitListsOfLen(n) ==
  IF n = 0 THEN {<<>>}
  ELSE {Append(l, Split(ParticipantNames[n], m)) :
          l \in SplitListsOfLen(n - 1), m \in ValidateSplitMills}

ValidateSplitLists == UNION {SplitListsOfLen(n) : n \in 0..MaxSplits}

\* the expenses a caller may pass to calculateBalances and
\* getSettlementBreakdown (type Expense; id, title and createdAt play no
\* part in either function)
Users == {"U1", "U2", "U3"}

Expense(payerId, mills, splitType, splits) ==
  [paidBy |-> [id |-> payerId], amount |-> Dec(mills),
   splitType |-> splitType, splits |-> splits]

ExpensePool == {
  \* the scenario of the documentation: 100 paid by U1, split 50 / 50
  Expense("U1", 100000, "equal", <<Split("U1", 50000), Split("U2", 50000)>>),
  \* amounts whose binary64 sums are inexact
  Expense("U2", 300, "custom", <<Split("U1", 100), Split("U2", 200)>>),
  Expense("U1", 300, "custom", <<Split("U2", 100), Split("U3", 200)>>),
  Expense("U1", 700, "custom", <<Split("U1", 100), Split("U2", 600)>>),
  \* split amounts below one cent
  Expense("U2", 1000, "custom",
          <<Split("U1", 333), Split("U2", 333), Split("U3", 334)>>),
  Expense("U2", 4, "custom", <<Split("U1", 4)>>),
  \* half a cent
  Expense("U1", 125, "custom", <<Split("U2", 125)>>),
  \* no resolvable payer
  Expense(NoId, 10000, "custom", <<Split("U1", 5000)>>),
  \* no splits at all
  Expense("U3", 200, "equal", <<>>),
  \* a zero split and a negative split
  Expense("U2", 5000, "custom", <<Split("U1", 0), Split("U2", 5000)>>),
  Expense("U1", 1000, "equal", <<Split("U1", 1500), Split("U2", -500)>>)
}

MemberLists == {<<>>, <<"U1", "U2">>, <<"U1", "U2", "U3">>}

(***************************************************************************)
(* State                                                                   *)
(***************************************************************************)
\* expenses:        the Expense[] the caller holds (app-context: expenses)
\* call:            the engine function or handler being called, its
\*                  arguments and its result
\* room:            the id of the selected room, or NoRoom
\* expensesLoading, expensesError: the loading flag and the error message
\* store:           the rows of the expenses table, per group, newest first
\* loads:           the loadExpenses calls that have not completed
\* adds:            the createExpense calls that have not completed
\* removes:         the deleteExpense calls: under way, or completed with
\*                  the row deleted
VARIABLES expenses, call, room, expensesLoading, expensesError, store, loads,
          adds, removes

appVars == <<room, expensesLoading, expensesError, store, loads, adds, removes>>

vars == <<expenses, call, room, expensesLoading, expensesError, store, loads,
          adds, removes>>

NoCall == [fn |-> "none"]

NoRoom == ""

\* expensesError: string | null
NoError == "null"

Rooms == {"R1", "R2"}

\* room.members.map((m) => m.id); the signed-in user is a member of every
\* room that get_user_groups returns
RoomMembers(r) == IF r = "R1" THEN <<"U1", "U2">> ELSE <<"U1", "U2", "U3">>

\* the signed-in user (user.id)
CurrentUser == "U1"

\* a row of the expenses table; the id stands for the generated UUID
Row(groupId, n, payerId, amount, splitType, splits) ==
  [id |-> <<groupId, n>>, paidBy |-> [id |-> payerId], amount |-> amount,
   splitType |-> splitType, splits |-> splits]

InitialStore ==
  [r \in Rooms |->
     IF r = "R1"
     THEN <<Row("R1", 1, "U2", FromInt(100), "equal",
                <<Split("U1", 50000), Split("U2", 50000)>>)>>
     ELSE <<>>]

Init ==
  /\ expenses = <<>>
  /\ call = NoCall
  /\ room = NoRoom
  /\ expensesLoading = FALSE
  /\ expensesError = NoError
  /\ store = InitialStore
  /\ loads = {}
  /\ adds = {}
  /\ removes = {}

\* the caller's list gains an expense, newest first (setExpenses(prev =>
\* [created, ...prev]))
AddExpense(e) ==
  /\ call = NoCall
  /\ Len(expenses) < MaxExpenses
  /\ expenses' = <<e>> \o expenses
  /\ UNCHANGED call
  /\ UNCHANGED appVars

\* the list is emptied (setExpenses([]))
ClearExpenses ==
  /\ call = NoCall
  /\ expenses # <<>>
  /\ expenses' = <<>>
  /\ UNCHANGED call
  /\ UNCHANGED appVars

CallCalculateBalances(memberIds) ==
  /\ call = NoCall
  /\ call' = [fn |-> "calculateBalances", expenses |-> expenses,
              memberIds |-> memberIds,
              ret |-> calculateBalances(expenses, memberIds)]
  /\ UNCHANGED expenses
  /\ UNCHANGED appVars

CallGetSettlementBreakdown(currentUserId) ==
  /\ call = NoCall
  /\ call' = [fn |-> "getSettlementBreakdown", expenses |-> expenses,
              currentUserId |-> currentUserId,
              ret |-> getSettlementBreakdown(expenses, currentUserId)]
  /\ UNCHANGED expenses
  /\ UNCHANGED appVars

CallBuildEqualSplits(amount, participantIds) ==
  /\ call = NoCall
  /\ call' = [fn |-> "buildEqualSplits", amount |-> amount,
              participantIds |-> participantIds,
              ret |-> buildEqualSplits(amount, participantIds)]
  /\ UNCHANGED expenses
  /\ UNCHANGED appVars

CallValidateExpenseInput(amount, splitType, splits) ==
  /\ call = NoCall
  /\ call' = [fn |-> "validateExpenseInput",
              params |-> [amount |-> amount, splitType |-> splitType,
                          splits |-> splits],
              ret |-> validateExpenseInput([amount |-> amount,
                                            splitType |-> splitType,
                                            splits |-> splits])]
  /\ UNCHANGED expenses
  /\ UNCHANGED appVars

\* the caller has consumed the result of the call
Return ==
  /\ call # NoCall
  /\ call' = NoCall
  /\ UNCHANGED expenses
  /\ UNCHANGED appVars

\* the Split Builder on its own
NextSplit ==
  \/ \E amount \in BuildAmounts, n \in 0..MaxParticipants :
       CallBuildEqualSplits(amount, Participants(n))
  \/ Return

SpecSplit == Init /\ [][NextSplit]_vars

\* the Expense Validator on its own
NextValidate ==
  \/ \E amount \in ValidateAmounts, splitType \in SplitTypes,
        splits \in ValidateSplitLists :
       CallValidateExpenseInput(amount, splitType, splits)
  \/ Return

SpecValidate == Init /\ [][NextValidate]_vars

\* the Balance Aggregator and the Settlement Reducer over a list of expenses
NextBalance ==
  \/ \E e \in ExpensePool : AddExpense(e)
  \/ ClearExpenses
  \/ \E memberIds \in MemberLists : CallCalculateBalances(memberIds)
  \/ \E currentUserId \in Users : CallGetSettlementBreakdown(currentUserId)
  \/ Return

SpecBalance == Init /\ [][NextBalance]_vars

\* round2 on its own: the values handed to it are the decimals of up to
\* three places from -MaxCents / 100 to MaxCents / 100 and some larger ones,
\* among them the values exactly halfway between two cents (odd multiples
\* of 0.125, which binary64 holds exactly)
Round2Mills ==
  (-(10 * MaxCents)..(10 * MaxCents))
    \cup {375, -375, 625, -625, 1125, -1125, 100125, -100125,
          1005, -1005, 2675, -2675, 100000, -100000}

CallRound2(mills) ==
  /\ call = NoCall
  /\ call' = [fn |-> "round2", mills |-> mills, n |-> Dec(mills),
              ret |-> round2(Dec(mills))]
  /\ UNCHANGED expenses
  /\ UNCHANGED appVars

NextRound ==
  \/ \E mills \in Round2Mills : CallRound2(mills)
  \/ Return

SpecRound == Init /\ [][NextRound]_vars

(***************************************************************************)
(* The app context and the add-expense drawer                              *)
(***************************************************************************)
\* bounds of the model: rows in the expenses table plus inserts under way,
\* loadExpenses calls under way, and deleteExpense calls made
MaxRows == 2
MaxLoads == 2
MaxRemoves == 1

MsgFailedToLoad == "Failed to load expenses"
MsgNoRoomSelected == "No room selected"
MsgFailedToRemove == "Failed to remove expense"

\* rowToExpense: the amounts of a row normalised to 2 decimals
rowToExpense(row) ==
  [id |-> row.id, paidBy |-> row.paidBy, amount |-> round2(row.amount),
   splitType |-> row.splitType,
   splits |-> [i \in 1..Len(row.splits) |->
                 [userId |-> row.splits[i].userId,
                  amount |-> round2(row.splits[i].amount)]]]

\* what loadExpenses(groupId) resolves with: the rows of the group, newest
\* first, mapped by rowToExpense (the query is answered when the call
\* completes)
Fetched(groupId) ==
  [i \in 1..Len(store[groupId]) |-> rowToExpense(store[groupId][i])]

\* a loadExpenses call under way: started by the load effect (with its
\* cancelled flag) or by refreshExpenses
Load(groupId, origin, cancelled) ==
  [room |-> groupId, origin |-> origin, cancelled |-> cancelled]

RowCount ==
  LET Count[n \in 0..2] ==
        IF n = 0 THEN 0
        ELSE Count[n - 1] + Len(store[IF n = 1 THEN "R1" ELSE "R2"])
  IN  Count[2] + Cardinality(adds)

\* setRoom(r) with another room id, and the load effect that follows the
\* change of room?.id: the cleanup of the previous run sets its cancelled
\* flag, the new run clears the list (no room) or starts loadExpenses
setRoom(r) ==
  /\ call = NoCall
  /\ r # room
  /\ LET kept == {IF l.origin = "effect" THEN Load(l.room, "effect", TRUE) ELSE l :
                    l \in loads}
     IN  /\ room' = r
         /\ expensesError' = NoError
         /\ IF r = NoRoom
            THEN /\ expenses' = <<>>
                 /\ expensesLoading' = FALSE
                 /\ loads' = kept
            ELSE /\ expensesLoading' = TRUE
                 /\ loads' = kept \cup {Load(r, "effect", FALSE)}
                 /\ Cardinality(loads') <= MaxLoads
                 /\ UNCHANGED expenses
  /\ UNCHANGED <<call, store, adds, removes>>

\* refreshExpenses (the Retry button shown with expensesError)
refreshExpenses ==
  /\ call = NoCall
  /\ room # NoRoom
  /\ expensesError # NoError
  /\ Load(room, "refresh", FALSE) \notin loads
  /\ Cardinality(loads) < MaxLoads
  /\ expensesLoading' = TRUE
  /\ expensesError' = NoError
  /\ loads' = loads \cup {Load(room, "refresh", FALSE)}
  /\ UNCHANGED <<expenses, call, room, store, adds, removes>>

\* loadExpenses resolves: .then and .finally of the effect (guarded by
\* cancelled), try and finally of refreshExpenses (not guarded)
LoadExpensesResolve(l) ==
  /\ call = NoCall
  /\ l \in loads
  /\ loads' = loads \ {l}
  /\ IF l.origin = "effect" /\ l.cancelled
     THEN UNCHANGED <<expenses, expensesLoading>>
     ELSE /\ expenses' = Fetched(l.room)
          /\ expensesLoading' = FALSE
  /\ UNCHANGED <<call, room, expensesError, store, adds, removes>>

\* loadExpenses rejects: .catch and .finally of the effect, catch and
\* finally of refreshExpenses
LoadExpensesReject(l) ==
  /\ call = NoCall
  /\ l \in loads
  /\ loads' = loads \ {l}
  /\ IF l.origin = "effect" /\ l.cancelled
     THEN UNCHANGED <<expenses, expensesLoading, expensesError>>
     ELSE /\ expensesError' = MsgFailedToLoad
          /\ expenses' = <<>>
          /\ expensesLoading' = FALSE
  /\ UNCHANGED <<call, room, store, adds, removes>>

\* otherMembers(room, user.id)
otherMembers(r, currentUserId) ==
  IF r = NoRoom THEN <<>>
  ELSE SelectSeq(RoomMembers(r), LAMBDA m : m # currentUserId)

\* parseFloat(amount) || 0 of a decimal typed into the amount field
ParseAmount(mills) == Dec(mills)

\* customSplitsParsed: the partners' amounts and the rest for the payer
RECURSIVE SumOthers(_, _, _)
SumOthers(vals, i, acc) ==
  IF i > Len(vals) THEN acc ELSE SumOthers(vals, i + 1, FAdd(acc, vals[i]))

customSplitsParsed(numAmount, others, customAmounts) ==
  LET vals == [i \in 1..Len(others) |-> MathMax(Zero, ParseAmount(customAmounts[i]))]
      sumOthers   == SumOthers(vals, 1, Zero)
      rest        == FSub(numAmount, sumOthers)
      restRounded == FDivInt(MathRound(FMulInt(rest, 100)), 100)
      totalsOk    == FGt(numAmount, Zero) /\ FLe(Dec(-10), restRounded)
  IN  [splits |-> [i \in 1..Len(others) |-> [userId |-> others[i], amount |-> vals[i]]]
                    \o <<[userId |-> CurrentUser, amount |-> MathMax(Zero, restRounded)]>>,
       sumOthers |-> sumOthers,
       valid |-> totalsOk /\ FGt(sumOthers, Zero)]

\* addExpense without the validation of its input
addExpenseNoValidation(input) ==
  IF room = NoRoom
  THEN /\ call' = [fn |-> "addExpense", input |-> input,
                   ret |-> [success |-> FALSE, error |-> MsgNoRoomSelected]]
       /\ UNCHANGED <<expenses, appVars>>
  ELSE /\ [room |-> room, input |-> input] \notin adds
       /\ adds' = adds \cup {[room |-> room, input |-> input]}
       /\ call' = [fn |-> "createExpense", groupId |-> room, input |-> input]
       /\ UNCHANGED <<expenses, room, expensesLoading, expensesError, store,
                       loads, removes>>

\* addExpense(input) up to the call of createExpense
addExpense(input) ==
  LET validation == validateExpenseInput([amount |-> input.amount,
                                          splitType |-> input.splitType,
                                          splits |-> input.splits])
  IN  IF ~validation.valid
      THEN /\ call' = [fn |-> "addExpense", input |-> input,
                       ret |-> [success |-> FALSE, error |-> validation.error]]
           /\ UNCHANGED <<expenses, appVars>>
      ELSE IF room = NoRoom
      THEN /\ call' = [fn |-> "addExpense", input |-> input,
                       ret |-> [success |-> FALSE, error |-> MsgNoRoomSelected]]
           /\ UNCHANGED <<expenses, appVars>>
      ELSE /\ [room |-> room, input |-> input] \notin adds
           /\ adds' = adds \cup {[room |-> room, input |-> input]}
           /\ call' = [fn |-> "createExpense", groupId |-> room, input |-> input]
           /\ UNCHANGED <<expenses, room, expensesLoading, expensesError, store,
                           loads, removes>>

\* handleAddExpense of the drawer: the form holds the title, the amount
\* typed (in thousandths), the split mode and the partners' amounts typed
handleAddExpense(title, amount, splitMode, customAmounts) ==
  /\ call = NoCall
  /\ RowCount < MaxRows
  /\ LET numAmount == ParseAmount(amount)
         others    == otherMembers(room, CurrentUser)
         parsed    == customSplitsParsed(numAmount, others, customAmounts)
         splits    == IF splitMode = "equal"
                      THEN buildEqualSplits(numAmount, RoomMembers(room))
                      ELSE parsed.splits
     IN  IF room = NoRoom \/ title = "" \/ (splitMode = "custom" /\ ~parsed.valid)
         THEN /\ call' = [fn |-> "handleAddExpense", title |-> title,
                          amount |-> amount, splitMode |-> splitMode,
                          customAmounts |-> customAmounts]
              /\ UNCHANGED <<expenses, appVars>>
         ELSE addExpense([paidBy |-> [id |-> CurrentUser], amount |-> numAmount,
                          splitType |-> splitMode, splits |-> splits])

\* the rows of the group deleted so far (the id of a new row is one no row
\* had before)
Deleted(groupId) == Cardinality({d \in removes : d.done /\ d.id[1] = groupId})

\* createExpense resolves: the row is inserted, and addExpense prepends the
\* created expense and returns success
CreateExpenseResolve(a) ==
  /\ call = NoCall
  /\ a \in adds
  /\ LET row == Row(a.room, Len(store[a.room]) + Deleted(a.room) + 1,
                    a.input.paidBy.id, a.input.amount, a.input.splitType,
                    a.input.splits)
     IN  /\ store' = [store EXCEPT ![a.room] = <<row>> \o @]
         /\ expenses' = <<rowToExpense(row)>> \o expenses
  /\ adds' = adds \ {a}
  /\ call' = [fn |-> "addExpense", input |-> a.input, ret |-> [success |-> TRUE]]
  /\ UNCHANGED <<room, expensesLoading, expensesError, loads, removes>>

\* createExpense throws (throwOnError): addExpense rejects, nothing is set
CreateExpenseReject(a) ==
  /\ call = NoCall
  /\ a \in adds
  /\ adds' = adds \ {a}
  /\ call' = [fn |-> "createExpense.throw", groupId |-> a.room, input |-> a.input]
  /\ UNCHANGED <<expenses, room, expensesLoading, expensesError, store, loads,
                 removes>>

\* removeExpense(id) up to the call of deleteExpense: the Delete button of
\* an expense of the list that the signed-in user paid
removeExpense(id) ==
  /\ call = NoCall
  /\ room # NoRoom
  /\ \E i \in 1..Len(expenses) :
       expenses[i].id = id /\ expenses[i].paidBy.id = CurrentUser
  /\ \A d \in removes : d.id # id
  /\ Cardinality(removes) < MaxRemoves
  /\ removes' = removes \cup {[id |-> id, done |-> FALSE]}
  /\ UNCHANGED <<expenses, call, room, expensesLoading, expensesError, store,
                 loads, adds>>

\* deleteExpense returns true: the row is deleted, and removeExpense takes
\* the expense out of the list
DeleteExpenseResolve(d) ==
  /\ call = NoCall
  /\ d \in removes
  /\ ~d.done
  /\ store' = [r \in Rooms |-> SelectSeq(store[r], LAMBDA row : row.id # d.id)]
  /\ expenses' = SelectSeq(expenses, LAMBDA e : e.id # d.id)
  /\ removes' = (removes \ {d}) \cup {[id |-> d.id, done |-> TRUE]}
  /\ UNCHANGED <<call, room, expensesLoading, expensesError, loads, adds>>

\* deleteExpense returns false: removeExpense shows the toast and leaves the
\* list alone
DeleteExpenseFail(d) ==
  /\ call = NoCall
  /\ d \in removes
  /\ ~d.done
  /\ removes' = removes \ {d}
  /\ call' = [fn |-> "toast.error", message |-> MsgFailedToRemove, id |-> d.id]
  /\ UNCHANGED <<expenses, room, expensesLoading, expensesError, store, loads,
                 adds>>

\* what can be typed into the drawer
FormAmountMills == {0, -1000, 4, 1000, 10005, 100000}
CustomFormAmountMills == {1000, 10005, 100000}
CustomMills == {0, 4, 1010, 1014, 40000, 59990, 100010}

RECURSIVE CustomLists(_)
CustomLists(n) ==
  IF n = 0 THEN {<<>>}
  ELSE {Append(l, m) : l \in CustomLists(n - 1), m \in CustomMills}

NoCustom(r) == [i \in 1..Len(otherMembers(r, CurrentUser)) |-> 0]

DrawerForms(r) ==
  {<<"Dinner", m, "equal", NoCustom(r)>> : m \in FormAmountMills}
    \cup {<<"", 1000, "equal", NoCustom(r)>>}
    \cup {<<"Dinner", m, "custom", c>> :
            m \in CustomFormAmountMills,
            c \in CustomLists(Len(otherMembers(r, CurrentUser)))}

\* the drawer and addExpense in the room selected after sign-in
NextDrawer ==
  \/ \E r \in Rooms : room = NoRoom /\ setRoom(r)
  \/ \E l \in loads : LoadExpensesResolve(l)
  \/ \E f \in DrawerForms(room) : handleAddExpense(f[1], f[2], f[3], f[4])
  \/ \E a \in adds : CreateExpenseResolve(a)
  \/ Return

SpecDrawer == Init /\ [][NextDrawer]_vars

\* the app context with its loads and inserts under way
AppForms(r) ==
  {<<"Dinner", 0, "equal", NoCustom(r)>>,
   <<"Dinner", 1000, "equal", NoCustom(r)>>,
   <<"Dinner", 1000, "custom", [i \in 1..Len(otherMembers(r, CurrentUser)) |-> 1010]>>}

NextApp ==
  \/ \E r \in Rooms \cup {NoRoom} : setRoom(r)
  \/ refreshExpenses
  \/ \E l \in loads : LoadExpensesResolve(l)
  \/ \E l \in loads : LoadExpensesReject(l)
  \/ \E f \in AppForms(room) : handleAddExpense(f[1], f[2], f[3], f[4])
  \/ \E a \in adds : CreateExpenseResolve(a)
  \/ \E a \in adds : CreateExpenseReject(a)
  \/ \E i \in 1..Len(expenses) : removeExpense(expenses[i].id)
  \/ \E d \in removes : DeleteExpenseResolve(d)
  \/ \E d \in removes : DeleteExpenseFail(d)
  \/ Return

SpecApp == Init /\ [][NextApp]_vars

(***************************************************************************)
(* Properties                                                              *)
(***************************************************************************)
\* The decimal reading of a number: its value in whole cents and in
\* thousandths (the inverse of Dec for the decimals used here).
AmountCents(x) == ToInt(MathRound(FMulInt(x, 100)))
AmountMills(x) == ToInt(MathRound(FMulInt(x, 1000)))

\* the sum of a sequence of integers
SumInts(s) ==
  LET S[i \in 0..Len(s)] == IF i = 0 THEN 0 ELSE S[i - 1] + s[i]
  IN  S[Len(s)]

UserSeq == <<"U1", "U2", "U3">>

HasPayer(e) == PayerId(e) # NoId

\* what user u owes according to one list of splits, each split rounded to
\* cents / read in thousandths
SplitCents(splits, u) ==
  SumInts([j \in 1..Len(splits) |->
             IF splits[j].userId = u THEN AmountCents(splits[j].amount) ELSE 0])

SplitMills(splits, u) ==
  SumInts([j \in 1..Len(splits) |->
             IF splits[j].userId = u THEN AmountMills(splits[j].amount) ELSE 0])

\* cents paid by u, and cents owed by u, over the expenses that have a payer
PaidCents(es, u) ==
  SumInts([i \in 1..Len(es) |->
             IF PayerId(es[i]) = u THEN AmountCents(es[i].amount) ELSE 0])

OwedCents(es, u) ==
  SumInts([i \in 1..Len(es) |->
             IF HasPayer(es[i]) THEN SplitCents(es[i].splits, u) ELSE 0])

\* thousandths paid by u, and owed by u, over all expenses
PaidMills(es, u) ==
  SumInts([i \in 1..Len(es) |->
             IF PayerId(es[i]) = u THEN AmountMills(es[i].amount) ELSE 0])

OwedMills(es, u) ==
  SumInts([i \in 1..Len(es) |-> SplitMills(es[i].splits, u)])

\* the values of a balance map, summed, in cents and in thousandths
BalanceSumCents(balances) ==
  SumInts([k \in 1..Len(UserSeq) |->
             IF UserSeq[k] \in DOMAIN balances
             THEN AmountCents(balances[UserSeq[k]]) ELSE 0])

BalanceSumMills(balances) ==
  SumInts([k \in 1..Len(UserSeq) |->
             IF UserSeq[k] \in DOMAIN balances
             THEN AmountMills(balances[UserSeq[k]]) ELSE 0])

TotalAmountMills(es) ==
  SumInts([i \in 1..Len(es) |-> AmountMills(es[i].amount)])

TotalSplitMills(es) ==
  SumInts([i \in 1..Len(es) |->
             SumInts([k \in 1..Len(UserSeq) |-> SplitMills(es[i].splits, UserSeq[k])])])

TotalAmountCents(es) ==
  SumInts([k \in 1..Len(UserSeq) |-> PaidCents(es, UserSeq[k])])

TotalSplitCents(es) ==
  SumInts([k \in 1..Len(UserSeq) |-> OwedCents(es, UserSeq[k])])

IsCalc == call.fn = "calculateBalances"
IsBreakdown == call.fn = "getSettlementBreakdown"
IsBuild == call.fn = "buildEqualSplits"
IsValidate == call.fn = "validateExpenseInput"

\* C1 as stated: the values of the map returned by calculateBalances sum to
\* (sum of all expense amounts) - (sum of all split amounts), for every list
\* of expenses.
C1_AsStated ==
  IsCalc =>
    BalanceSumMills(call.ret) = TotalAmountMills(call.expenses) - TotalSplitMills(call.expenses)

\* C1 amended: every value of the map is a whole number of cents, and the
\* values sum to (sum of the expense amounts, each rounded to cents) - (sum
\* of the split amounts, each rounded to cents), both sums taken over the
\* expenses that have a payer id; when the rounded splits of each such
\* expense sum to its rounded amount, the balances sum to 0.
C1_BalancesSum ==
  IsCalc =>
    /\ \A u \in DOMAIN call.ret : call.ret[u] = FromCents(AmountCents(call.ret[u]))
    /\ BalanceSumCents(call.ret)
         = TotalAmountCents(call.expenses) - TotalSplitCents(call.expenses)
    /\ (\A i \in 1..Len(call.expenses) :
          LET e == call.expenses[i]
          IN  HasPayer(e) =>
                AmountCents(e.amount)
                  = SumInts([k \in 1..Len(UserSeq) |-> SplitCents(e.splits, UserSeq[k])]))
       => BalanceSumCents(call.ret) = 0

\* C1 witness: balances of a list that holds an expense without a payer and
\* an expense with a payer, whose balances do not sum to zero.
C1_Witness ==
  /\ IsCalc
  /\ \E i \in 1..Len(call.expenses) : ~HasPayer(call.expenses[i])
  /\ \E i \in 1..Len(call.expenses) : HasPayer(call.expenses[i])
  /\ BalanceSumCents(call.ret) # 0

\* C2 as stated: for every amount > 0 and every non-empty participant
\* sequence the amounts returned by buildEqualSplits sum exactly to
\* round2(amount).
C2_AsStated ==
  (IsBuild /\ FGt(call.amount, Zero) /\ Len(call.participantIds) > 0)
    => SumSplits(call.ret) = round2(call.amount)

ScenarioExpense ==
  Expense("U1", 100000, "equal", <<Split("U1", 50000), Split("U2", 50000)>>)

\* C3 as stated: calculateBalances gives every member m (sum of the amounts
\* of the expenses paid by m) - (sum of m's split amounts over all expenses).
C3_AsStated ==
  IsCalc =>
    \A k \in 1..Len(call.memberIds) :
      LET m == call.memberIds[k]
      IN  AmountMills(call.ret[m])
            = PaidMills(call.expenses, m) - OwedMills(call.expenses, m)

\* C3 amended: calculateBalances gives every member (and every other payer
\* or split participant) the cents value (sum of the amounts, each rounded to
\* cents, of the expenses paid by them) - (sum of their split amounts, each
\* rounded to cents, over the expenses that have a payer id); 100 paid by U1
\* and split 50 / 50 over [U1, U2] gives {U1: 50, U2: -50}.
C3_NetBalance ==
  IsCalc =>
    /\ \A u \in DOMAIN call.ret :
         call.ret[u] = FromCents(PaidCents(call.expenses, u) - OwedCents(call.expenses, u))
    /\ \A k \in 1..Len(call.memberIds) : call.memberIds[k] \in DOMAIN call.ret
    /\ (call.expenses = <<ScenarioExpense>> /\ call.memberIds = <<"U1", "U2">>)
         => call.ret = ("U1" :> FromInt(50) @@ "U2" :> FromInt(-50))

\* C3 witness: the documented scenario has been computed.
C3_Witness ==
  /\ IsCalc
  /\ call.expenses = <<ScenarioExpense>>
  /\ call.memberIds = <<"U1", "U2">>
  /\ call.ret["U1"] = FromInt(50)
  /\ call.ret["U2"] = FromInt(-50)

\* C4: buildEqualSplits returns one split per participant in input order;
\* for a finite amount, with totalCents = round(amount * 100), shareCents =
\* floor(totalCents / n) and remainder = totalCents - shareCents * n, the
\* first remainder participants receive shareCents + 1 cents and the later
\* ones shareCents cents; 100 over [a, b, c] gives 33.34, 33.33, 33.33.
C4_EqualShares ==
  IsBuild =>
    LET ids == call.participantIds
        n   == Len(ids)
    IN  /\ Len(call.ret) = n
        /\ \A i \in 1..n : call.ret[i].userId = ids[i]
        /\ (IsFiniteNum(call.amount) /\ n > 0) =>
             LET totalCents == AmountCents(call.amount)
                 shareCents == totalCents \div n
                 remainder  == totalCents - shareCents * n
             IN  \A i \in 1..n :
                   call.ret[i].amount
                     = FromCents(shareCents + (IF i <= remainder THEN 1 ELSE 0))
        /\ (call.amount = Dec(100000) /\ n = 3) =>
             /\ call.ret[1].amount = Dec(33340)
             /\ call.ret[2].amount = Dec(33330)
             /\ call.ret[3].amount = Dec(33330)

\* C4 witness: 100 has been split over three participants, the first of
\* whom received the remainder cent.
C4_Witness ==
  /\ IsBuild
  /\ call.amount = Dec(100000)
  /\ call.participantIds = <<"a", "b", "c">>
  /\ call.ret[1].amount = Dec(33340)
  /\ call.ret[3].amount = Dec(33330)

\* the list with the expenses at i and i + 1 exchanged
SwapAt(es, i) ==
  [k \in 1..Len(es) |->
     IF k = i THEN es[i + 1] ELSE IF k = i + 1 THEN es[i] ELSE es[k]]

\* C5: calculateBalances is order-independent: exchanging two neighbouring
\* expenses of the list (hence any permutation of it) leaves the returned
\* map unchanged.
C5_OrderIndependent ==
  IsCalc =>
    \A i \in 1..(Len(call.expenses) - 1) :
      calculateBalances(SwapAt(call.expenses, i), call.memberIds) = call.ret

\* C5 witness: balances of two different expenses that touch the same
\* member, who ends with a non-zero balance.
C5_Witness ==
  /\ IsCalc
  /\ Len(call.expenses) >= 2
  /\ call.expenses[1] # call.expenses[2]
  /\ HasPayer(call.expenses[1])
  /\ PayerId(call.expenses[1]) = PayerId(call.expenses[2])
  /\ call.ret[PayerId(call.expenses[1])] # Zero

AbsInt(n) == IF n < 0 THEN -n ELSE n

SplitsTotalMills(splits) ==
  SumInts([j \in 1..Len(splits) |-> AmountMills(splits[j].amount)])

HasNegativeSplit(splits) ==
  \E j \in 1..Len(splits) : AmountMills(splits[j].amount) < 0

PositiveFinite(amount) == IsFiniteNum(amount) /\ FGt(amount, Zero)

\* C6 as stated: for splitType custom, a positive finite amount and no
\* negative split, validateExpenseInput rejects if and only if
\* |sum(split amounts) - amount| > 0.01; a difference of exactly 0.01 is
\* accepted.
C6_AsStated ==
  (/\ IsValidate
   /\ call.params.splitType = "custom"
   /\ PositiveFinite(call.params.amount)
   /\ ~HasNegativeSplit(call.params.splits))
    => (~call.ret.valid
          <=> AbsInt(SplitsTotalMills(call.params.splits)
                       - AmountMills(call.params.amount)) > 10)

\* C7 as stated: validateExpenseInput returns invalid for every input with a
\* positive finite amount in which some split is negative.
C7_AsStated ==
  (/\ IsValidate
   /\ PositiveFinite(call.params.amount)
   /\ HasNegativeSplit(call.params.splits))
    => ~call.ret.valid

\* C7 amended: for splitType custom, validateExpenseInput returns invalid
\* for every input with a positive finite amount in which some split is
\* negative, whether or not the splits sum to the amount; when they do, the
\* reason is that split amounts cannot be negative.
C7_NegativeSplitRejected ==
  (/\ IsValidate
   /\ call.params.splitType = "custom"
   /\ PositiveFinite(call.params.amount)
   /\ HasNegativeSplit(call.params.splits))
    => /\ ~call.ret.valid
       /\ SplitsTotalMills(call.params.splits) = AmountMills(call.params.amount)
            => call.ret.error = MsgNegativeSplit

\* C7 witness: a custom input whose splits, one of them negative, sum to the
\* amount has been rejected.
C7_Witness ==
  /\ IsValidate
  /\ call.params.splitType = "custom"
  /\ call.params.amount = Dec(1000)
  /\ HasNegativeSplit(call.params.splits)
  /\ SplitsTotalMills(call.params.splits) = 1000
  /\ ~call.ret.valid

\* C8: with amount 0, null or undefined validateExpenseInput returns invalid
\* with the not-empty reason, for every split type and every list of splits.
C8_EmptyAmount ==
  (IsValidate /\ call.params.amount \in {Zero, Null, Undefined})
    => call.ret = Invalid(MsgEnterAmount)

\* C8 witness: amount 0 with custom splits that sum to 0 has been rejected.
C8_Witness ==
  /\ IsValidate
  /\ call.params.amount = Zero
  /\ call.params.splitType = "custom"
  /\ Len(call.params.splits) > 0
  /\ SplitsTotalMills(call.params.splits) = 0
  /\ ~call.ret.valid

\* C9: buildEqualSplits with an empty participant sequence returns an empty
\* sequence, whatever the amount (0, negative and non-finite included).
C9_NoParticipants ==
  (IsBuild /\ call.participantIds = <<>>) => call.ret = <<>>

\* C9 witness: NaN has been split over nobody.
C9_Witness ==
  /\ IsBuild
  /\ call.participantIds = <<>>
  /\ call.amount = NaN
  /\ call.ret = <<>>

\* what viewer v owes payer p: v's splits over the expenses paid by p
GiveCents(es, v, p) ==
  SumInts([i \in 1..Len(es) |->
             IF PayerId(es[i]) = p THEN SplitCents(es[i].splits, v) ELSE 0])

GiveMills(es, v, p) ==
  SumInts([i \in 1..Len(es) |->
             IF PayerId(es[i]) = p THEN SplitMills(es[i].splits, v) ELSE 0])

Entries(list) == {list[i] : i \in 1..Len(list)}

\* C10 as stated: youGive holds exactly one entry (P, a) for each payer
\* P # V for whom a = sum of V's split amounts over the expenses paid by P
\* is > 0, and nothing else.
C10_AsStated ==
  IsBreakdown =>
    LET v  == call.currentUserId
        es == call.expenses
    IN  /\ {<<e.userId, AmountMills(e.amount)>> : e \in Entries(call.ret.youGive)}
             = {<<p, GiveMills(es, v, p)>> :
                  p \in {q \in Users \ {v} : GiveMills(es, v, q) > 0}}
        /\ Len(call.ret.youGive) = Cardinality(Entries(call.ret.youGive))

\* C10 amended: youGive holds exactly one entry (P, a) for each payer P # V
\* for whom a = sum of V's split amounts, each rounded to cents, over the
\* expenses paid by P is > 0, and nothing else; 100 paid by U1 and split
\* 50 / 50 viewed by U2 gives totalOwed 50, totalPaid 0, getBack 0,
\* youGive [(U1, 50)], youGet [].
C10_YouGive ==
  IsBreakdown =>
    LET v  == call.currentUserId
        es == call.expenses
    IN  /\ Entries(call.ret.youGive)
             = {[userId |-> p, amount |-> FromCents(GiveCents(es, v, p))] :
                  p \in {q \in Users \ {v} : GiveCents(es, v, q) > 0}}
        /\ Len(call.ret.youGive) = Cardinality(Entries(call.ret.youGive))
        /\ (es = <<ScenarioExpense>> /\ v = "U2") =>
             call.ret = [totalOwed |-> FromInt(50), totalPaid |-> Zero,
                         getBack |-> Zero,
                         youGive |-> <<[userId |-> "U1", amount |-> FromInt(50)]>>,
                         youGet |-> <<>>]

\* C10 witness: U2 views the documented scenario and owes U1 50.
C10_Witness ==
  /\ IsBreakdown
  /\ call.expenses = <<ScenarioExpense>>
  /\ call.currentUserId = "U2"
  /\ call.ret.youGive = <<[userId |-> "U1", amount |-> FromInt(50)]>>

MaxInt(a, b) == IF a >= b THEN a ELSE b

\* C11: for every expense list and viewer, the totalPaid, totalOwed and
\* getBack that getSettlementBreakdown returns are whole numbers of cents
\* and getBack = max(0, totalPaid - totalOwed); getBack is never negative
\* and is 0 whenever totalOwed >= totalPaid.
C11_GetBack ==
  IsBreakdown =>
    LET paid == AmountCents(call.ret.totalPaid)
        owed == AmountCents(call.ret.totalOwed)
    IN  /\ call.ret.totalPaid = FromCents(paid)
        /\ call.ret.totalOwed = FromCents(owed)
        /\ call.ret.getBack = FromCents(MaxInt(0, paid - owed))
        /\ ~FLt(call.ret.getBack, Zero)
        /\ FLe(call.ret.totalPaid, call.ret.totalOwed) => call.ret.getBack = Zero

\* C11 witness: U1 paid 0.30 and owes 0.10; the binary64 difference
\* 0.3 - 0.1 is not 0.2, and getBack is 0.2.
C11_Witness ==
  /\ IsBreakdown
  /\ call.currentUserId = "U1"
  /\ call.ret.totalPaid = FromCents(30)
  /\ call.ret.totalOwed = FromCents(10)
  /\ FSub(call.ret.totalPaid, call.ret.totalOwed) # FromCents(20)
  /\ call.ret.getBack = FromCents(20)

\* the Expense invariant: the split amounts sum to the amount within 0.01,
\* as binary64 numbers and read as decimals
WithinTolerance(e) ==
  /\ ~FGt(FAbs(FSub(SumSplits(e.splits), e.amount)), FLOAT_EPSILON)
  /\ AbsInt(SplitsTotalMills(e.splits) - AmountMills(e.amount)) <= 10

\* C12: every expense that the drawer builds and addExpense hands to
\* createExpense, and every row created from it, has split amounts that
\* sum to its amount within 0.01.
C12_SubmittedWithinTolerance ==
  /\ \A a \in adds : WithinTolerance(a.input)
  /\ \A r \in Rooms : \A i \in 1..Len(store[r]) : WithinTolerance(store[r][i])

\* C12 witness: in R1 a custom split of 1.00 with 0.004 typed for the
\* partner has been created; the payer's rest is rounded to 1.00, so the
\* splits sum to 1.004, not to the amount.
C12_Witness ==
  /\ Len(store["R1"]) = 2
  /\ store["R1"][1].splitType = "custom"
  /\ store["R1"][1].amount = FromInt(1)
  /\ store["R1"][1].splits = <<Split("U2", 4), Split("U1", 1000)>>
  /\ SplitsTotalMills(store["R1"][1].splits) = 1004

\* C13: for every amount (zero, missing, negative, positive, non-finite),
\* either split type and every list of splits, validateExpenseInput returns
\* either {valid: true} without an error or {valid: false} with a reason;
\* an error is present exactly when valid is false.
C13_TotalResult ==
  IsValidate =>
    /\ call.ret.valid \in BOOLEAN
    /\ DOMAIN call.ret = IF call.ret.valid THEN {"valid"} ELSE {"valid", "error"}
    /\ ("error" \in DOMAIN call.ret) <=> ~call.ret.valid

\* C13 witness: the non-finite amount NaN with custom splits is answered
\* with a failure value and its reason.
C13_Witness ==
  /\ IsValidate
  /\ call.params.amount = NaN
  /\ call.params.splitType = "custom"
  /\ call.params.splits # <<>>
  /\ call.ret = [valid |-> FALSE, error |-> MsgValidNumber]

\* a loadExpenses call for another room than the selected one completes
LateCompletion(l) == l.room # room /\ l \notin loads' /\ room' = room

\* C14 as stated: once the selected room has changed, a late completion
\* (success or failure) of the previous room's loadExpenses never changes
\* expenses, expensesError or expensesLoading.
C14_AsStated ==
  [][\A l \in loads :
       LateCompletion(l) => UNCHANGED <<expenses, expensesError, expensesLoading>>]_vars

\* what validateExpenseInput says of an input of addExpense
InputValidation(input) ==
  validateExpenseInput([amount |-> input.amount, splitType |-> input.splitType,
                        splits |-> input.splits])

\* each expense of the in-memory list is a row that the store holds
CreatedInStore(e) ==
  \E i \in 1..Len(store[e.id[1]]) : rowToExpense(store[e.id[1]][i]) = e

\* C15: whenever validateExpenseInput reports the input invalid, addExpense
\* returns {success: false, error: that reason}, createExpense is not
\* called (no insert is started, the store is unchanged) and the in-memory
\* expenses list is unchanged; only valid inputs are handed to
\* createExpense, and every expense of the list is one the store created.
C15_BlocksInvalid ==
  /\ [][(call' # call /\ call'.fn = "addExpense"
           /\ ~InputValidation(call'.input).valid)
          => /\ call'.ret = [success |-> FALSE,
                             error |-> InputValidation(call'.input).error]
             /\ UNCHANGED <<expenses, store, adds>>]_vars
  /\ [](\A a \in adds : InputValidation(a.input).valid)
  /\ [](\A i \in 1..Len(expenses) : CreatedInStore(expenses[i]))

\* C15 witness: with expenses loaded, a custom split of 1.00 with 1.01 for
\* the partner is refused with the split-total reason.
C15_Witness ==
  /\ call.fn = "addExpense"
  /\ call.input.splitType = "custom"
  /\ call.input.splits = <<Split("U2", 1010), [userId |-> "U1", amount |-> Zero]>>
  /\ call.ret = [success |-> FALSE,
                 error |-> MsgSplitTotal(Dec(1010), FromInt(1))]
  /\ expenses # <<>>
  /\ adds = {}

\* thousandths of v's splits over the expenses paid by someone else
OwedToOthersMills(es, v) ==
  SumInts([i \in 1..Len(es) |->
             IF HasPayer(es[i]) /\ PayerId(es[i]) # v
             THEN SplitMills(es[i].splits, v) ELSE 0])

\* C16 as stated: totalOwed equals the sum of V's split amounts over the
\* expenses whose payer is someone other than V; V's own split on an
\* expense V paid is not counted.
C16_AsStated ==
  IsBreakdown =>
    AmountMills(call.ret.totalOwed)
      = OwedToOthersMills(call.expenses, call.currentUserId)

\* C16 amended: totalOwed equals the sum of V's split amounts, each rounded
\* to cents, over all expenses that have a payer id, V's own split on an
\* expense V paid included.
C16_TotalOwed ==
  IsBreakdown =>
    call.ret.totalOwed = FromCents(OwedCents(call.expenses, call.currentUserId))

\* C16 witness: U1 paid 100 split 50 / 50 and views the breakdown:
\* totalOwed is U1's own 50.
C16_Witness ==
  /\ IsBreakdown
  /\ call.expenses = <<ScenarioExpense>>
  /\ call.currentUserId = "U1"
  /\ call.ret.totalOwed = FromInt(50)

\* what member m owes viewer v: m's splits over the expenses paid by v
GetCents(es, v, m) ==
  SumInts([i \in 1..Len(es) |->
             IF PayerId(es[i]) = v THEN SplitCents(es[i].splits, m) ELSE 0])

GetMills(es, v, m) ==
  SumInts([i \in 1..Len(es) |->
             IF PayerId(es[i]) = v THEN SplitMills(es[i].splits, m) ELSE 0])

\* the expenses with the viewer's own splits taken out
WithoutOwnSplits(es, v) ==
  [i \in 1..Len(es) |->
     [es[i] EXCEPT !.splits = SelectSeq(es[i].splits, LAMBDA s : s.userId # v)]]

\* C17 as stated: youGet holds exactly one entry (M, a) for each member
\* M # V for whom a = sum of M's split amounts over the expenses paid by V
\* is > 0, and nothing else.
C17_AsStated ==
  IsBreakdown =>
    LET v  == call.currentUserId
        es == call.expenses
    IN  /\ {<<e.userId, AmountMills(e.amount)>> : e \in Entries(call.ret.youGet)}
             = {<<m, GetMills(es, v, m)>> :
                  m \in {q \in Users \ {v} : GetMills(es, v, q) > 0}}
        /\ Len(call.ret.youGet) = Cardinality(Entries(call.ret.youGet))

\* C17 amended: youGet holds exactly one entry (M, a) for each member M # V
\* for whom a = sum of M's split amounts, each rounded to cents, over the
\* expenses paid by V is > 0, and nothing else; the entries are the same
\* when V's own splits are taken out of the expenses.
C17_YouGet ==
  IsBreakdown =>
    LET v  == call.currentUserId
        es == call.expenses
    IN  /\ Entries(call.ret.youGet)
             = {[userId |-> m, amount |-> FromCents(GetCents(es, v, m))] :
                  m \in {q \in Users \ {v} : GetCents(es, v, q) > 0}}
        /\ Len(call.ret.youGet) = Cardinality(Entries(call.ret.youGet))
        /\ getSettlementBreakdown(WithoutOwnSplits(es, v), v).youGet = call.ret.youGet

\* C17 witness: U1 paid 0.70 with an own split of 0.10 and 0.60 for U2, and
\* 0.125 for U2 alone; U2 is listed once, with 0.60 + 0.13.
C17_Witness ==
  /\ IsBreakdown
  /\ call.currentUserId = "U1"
  /\ Len(call.expenses) = 2
  /\ \E i \in 1..2 : \E s \in Entries(call.expenses[i].splits) : s.userId = "U1"
  /\ call.ret.youGet = <<[userId |-> "U2", amount |-> FromCents(73)]>>

\* C18 as stated: totalPaid equals the sum of the full amounts of all
\* expenses whose payer is V, regardless of the expenses' splits.
C18_AsStated ==
  IsBreakdown =>
    AmountMills(call.ret.totalPaid) = PaidMills(call.expenses, call.currentUserId)

\* C18 amended: totalPaid equals the sum of the full amounts, each rounded
\* to cents, of all expenses whose payer is V, regardless of the expenses'
\* splits (an empty split list or splits that do not sum to the amount
\* included).
C18_TotalPaid ==
  IsBreakdown =>
    call.ret.totalPaid = FromCents(PaidCents(call.expenses, call.currentUserId))

\* C18 witness: U3 paid 0.20 without any split, and totalPaid is 0.20.
C18_Witness ==
  /\ IsBreakdown
  /\ call.currentUserId = "U3"
  /\ \E i \in 1..Len(call.expenses) :
       PayerId(call.expenses[i]) = "U3" /\ call.expenses[i].splits = <<>>
  /\ call.ret.totalPaid = FromCents(20)

\* the entries of one list: strictly positive, not the viewer, one per
\* counterparty
WellFormedEntries(list, v) ==
  /\ \A i \in 1..Len(list) : FGt(list[i].amount, Zero) /\ list[i].userId # v
  /\ \A i, j \in 1..Len(list) : list[i].userId = list[j].userId => i = j

\* C19: in every result of getSettlementBreakdown, every entry of youGive
\* and youGet has a strictly positive amount and names a counterparty other
\* than the viewer, each counterparty appears at most once per list, and a
\* counterparty whose accumulated amount is 0 is omitted.
C19_EntriesPositive ==
  IsBreakdown =>
    LET v  == call.currentUserId
        es == call.expenses
    IN  /\ WellFormedEntries(call.ret.youGive, v)
        /\ WellFormedEntries(call.ret.youGet, v)
        /\ \A q \in Users :
             /\ GiveCents(es, v, q) = 0
                  => \A e \in Entries(call.ret.youGive) : e.userId # q
             /\ GetCents(es, v, q) = 0
                  => \A e \in Entries(call.ret.youGet) : e.userId # q

\* C19 witness: U2 paid 5.00 with a split of 0 for U1; U1 has a split on an
\* expense paid by the viewer and is not listed in youGet.
C19_Witness ==
  /\ IsBreakdown
  /\ call.currentUserId = "U2"
  /\ call.expenses =
       <<Expense("U2", 5000, "custom", <<Split("U1", 0), Split("U2", 5000)>>)>>
  /\ call.ret.youGet = <<>>
  /\ call.ret.youGive = <<>>

\* u is the payer or a split participant of some expense of the list
Involved(es, u) ==
  \E i \in 1..Len(es) :
    PayerId(es[i]) = u \/ \E s \in Entries(es[i].splits) : s.userId = u

\* C20: every id in memberIds is a key of the map returned by
\* calculateBalances, and a member who is neither payer nor split
\* participant of any expense has balance exactly 0; with an empty expense
\* list every member is 0.
C20_MembersPresent ==
  IsCalc =>
    /\ \A i \in 1..Len(call.memberIds) :
         LET m == call.memberIds[i]
         IN  /\ m \in DOMAIN call.ret
             /\ ~Involved(call.expenses, m) => call.ret[m] = Zero
    /\ call.expenses = <<>> =>
         call.ret = [m \in {call.memberIds[i] : i \in 1..Len(call.memberIds)} |-> Zero]

\* C20 witness: 100 paid by U1 and split between U1 and U2, balances asked
\* for U1, U2 and U3: U3 has no part in the expense and is present with 0.
C20_Witness ==
  /\ IsCalc
  /\ call.expenses = <<ScenarioExpense>>
  /\ call.memberIds = <<"U1", "U2", "U3">>
  /\ ~Involved(call.expenses, "U3")
  /\ call.ret = [U1 |-> FromInt(50), U2 |-> FNeg(FromInt(50)), U3 |-> Zero]

\* the checks of validateExpenseInput that an input fails, taken one by one
FailsNotEmpty(amount) == amount \in {Zero, Null, Undefined}

FailsAmount(amount) == ~PositiveFinite(amount)

FailsSplits(amount, splitType, splits) ==
  splitType = "custom" /\ ~validateSplitTotals(amount, splits).valid

\* C21: validateExpenseInput runs not-empty, then positive-and-finite, then
\* (custom only) the split totals, and returns the reason of the first check
\* that fails: an input failing the not-empty check gets the not-empty
\* reason whatever else it fails, an input failing the amount check only
\* after that gets the amount check's reason, the split check's reason is
\* returned only when both amount checks pass, and when an amount check
\* fails the result is the same as for the same amount without any splits.
C21_FirstFailureWins ==
  IsValidate =>
    LET amount    == call.params.amount
        splitType == call.params.splitType
        splits    == call.params.splits
    IN  /\ FailsNotEmpty(amount) => call.ret = Invalid(MsgEnterAmount)
        /\ (~FailsNotEmpty(amount) /\ FailsAmount(amount))
             => /\ ~call.ret.valid
                /\ call.ret = validateAmount(amount)
        /\ (~FailsNotEmpty(amount) /\ ~FailsAmount(amount))
             => call.ret = IF FailsSplits(amount, splitType, splits)
                           THEN validateSplitTotals(amount, splits)
                           ELSE Valid
        /\ (FailsNotEmpty(amount) \/ FailsAmount(amount))
             => call.ret = validateExpenseInput([amount |-> amount,
                                                 splitType |-> "equal",
                                                 splits |-> <<>>])

\* C21 witness: amount 0 with custom splits, one of them negative, that do
\* not sum to the amount fails all three checks and is answered with the
\* not-empty reason.
C21_Witness ==
  /\ IsValidate
  /\ call.params.amount = Zero
  /\ call.params.splitType = "custom"
  /\ HasNegativeSplit(call.params.splits)
  /\ SplitsTotalMills(call.params.splits) # 0
  /\ FailsAmount(call.params.amount)
  /\ FailsSplits(call.params.amount, call.params.splitType, call.params.splits)
  /\ call.ret = Invalid(MsgEnterAmount)

\* C22: for splitType equal and a positive finite amount validateExpenseInput
\* returns valid, without an error, for every list of splits: an empty list,
\* a sum that differs from the amount and a negative split are all accepted.
C22_EqualIgnoresSplits ==
  (/\ IsValidate
   /\ call.params.splitType = "equal"
   /\ PositiveFinite(call.params.amount))
    => /\ call.ret.valid
       /\ DOMAIN call.ret = {"valid"}

\* C22 witness: an equal-type input of 1.00 whose splits hold a negative
\* amount and sum to more than 0.01 away from 1.00 has been accepted.
C22_Witness ==
  /\ IsValidate
  /\ call.params.splitType = "equal"
  /\ call.params.amount = Dec(1000)
  /\ HasNegativeSplit(call.params.splits)
  /\ AbsInt(SplitsTotalMills(call.params.splits) - 1000) > 10
  /\ ~validateSplitTotals(call.params.amount, call.params.splits).valid
  /\ call.ret = Valid

\* C23: validateExpenseInput never accepts an amount that is not a positive
\* finite number; every amount < 0, negative infinity included, is refused
\* with the greater-than-zero reason, and NaN and positive infinity are
\* refused with the valid-number reason, for either split type and every
\* list of splits.
C23_RejectsNonPositive ==
  IsValidate =>
    LET amount == call.params.amount
    IN  /\ ~PositiveFinite(amount) => ~call.ret.valid
        /\ FLt(amount, Zero) => call.ret = Invalid(MsgGreaterThanZero)
        /\ (amount.k \in {"nan", "inf"} /\ ~FLe(amount, Zero))
             => call.ret = Invalid(MsgValidNumber)

\* C23 witness: negative infinity with an equal split has been refused with
\* the greater-than-zero reason.
C23_Witness ==
  /\ IsValidate
  /\ call.params.amount = NegInfinity
  /\ call.params.splitType = "equal"
  /\ call.ret = [valid |-> FALSE, error |-> MsgGreaterThanZero]

\* the list without its i-th expense
RemoveAt(es, i) == SubSeq(es, 1, i - 1) \o SubSeq(es, i + 1, Len(es))

\* C24: calculateBalances skips an expense whose payer has no id: the result
\* is the result for the list with that expense removed, no split of it is
\* debited, and nothing is booked on the missing id.
C24_PayerlessSkipped ==
  IsCalc =>
    /\ \A i \in 1..Len(call.expenses) :
         ~HasPayer(call.expenses[i])
           => call.ret = calculateBalances(RemoveAt(call.expenses, i), call.memberIds)
    /\ NoId \notin DOMAIN call.ret

\* C24 witness: an expense of 10.00 without payer, with a split of 5.00
\* for U1, precedes 100 paid by U1 and split 50 / 50; U1 is at +50, not at 0.
C24_Witness ==
  /\ IsCalc
  /\ Len(call.expenses) = 2
  /\ ~HasPayer(call.expenses[1])
  /\ SplitCents(call.expenses[1].splits, "U1") > 0
  /\ call.expenses[2] = ScenarioExpense
  /\ call.memberIds = <<"U1", "U2">>
  /\ call.ret = [U1 |-> FromInt(50), U2 |-> FNeg(FromInt(50))]

IsRound == call.fn = "round2"

\* mills / 1000 lies exactly halfway between two cents and is a binary64
\* value (an odd multiple of 0.125)
ExactTie(mills) == mills % 250 = 125

\* the whole number of cents nearest to mills / 1000, a tie going to the
\* greater cent / to the cent further from zero
NearestCentsHalfUp(mills) == (mills + 5) \div 10

NearestCentsHalfAway(mills) ==
  IF mills >= 0 THEN (mills + 5) \div 10 ELSE -((5 - mills) \div 10)

ListCents(list) == SumInts([i \in 1..Len(list) |-> AmountCents(list[i].amount)])

SplitsTotalCents(splits) ==
  SumInts([j \in 1..Len(splits) |-> AmountCents(splits[j].amount)])

\* an expense with a payer whose splits, none negative, cover its amount:
\* exactly as decimals, and cent by cent as the engine reads them
Covered(e) ==
  /\ HasPayer(e)
  /\ ~HasNegativeSplit(e.splits)
  /\ SplitsTotalMills(e.splits) = AmountMills(e.amount)

CoveredInCents(e) ==
  /\ HasPayer(e)
  /\ ~HasNegativeSplit(e.splits)
  /\ SplitsTotalCents(e.splits) = AmountCents(e.amount)

\* C26: getBack is the viewer's aggregate net and not the sum of youGet: for
\* every list of expenses whose splits cover their amounts, getBack is
\* max(0, sum of youGet - sum of youGive), so it falls short of the sum of
\* youGet exactly when the viewer both owes and is owed, and it is 0 with a
\* positive youGet entry whenever the viewer owes at least as much.
C26_GetBackDiverges ==
  (IsBreakdown /\ \A i \in 1..Len(call.expenses) : CoveredInCents(call.expenses[i]))
    => LET get  == ListCents(call.ret.youGet)
           give == ListCents(call.ret.youGive)
       IN  /\ call.ret.getBack = FromCents(MaxInt(0, get - give))
           /\ (AmountCents(call.ret.getBack) # get) <=> (give > 0 /\ get > 0)
           /\ (give >= get) => call.ret.getBack = Zero

\* C26 witness: U2 paid 0.30 of which U1 owes 0.10, and owes U1 50 of the
\* 100 U1 paid; every split is non-negative and the splits sum to the
\* amounts; getBack is 0 while youGet lists 0.10 from U1.
C26_Witness ==
  /\ IsBreakdown
  /\ call.currentUserId = "U2"
  /\ \A i \in 1..Len(call.expenses) : Covered(call.expenses[i])
  /\ call.ret.youGive = <<[userId |-> "U1", amount |-> FromInt(50)]>>
  /\ call.ret.youGet = <<[userId |-> "U1", amount |-> FromCents(10)]>>
  /\ FGt(call.ret.youGet[1].amount, Zero)
  /\ call.ret.getBack = Zero

\* a number of exactly two decimals, and a list of expenses whose amounts
\* and split amounts all are
TwoDecimal(x) == IsFiniteNum(x) /\ x = FromCents(AmountCents(x))

TwoDecimalList(es) ==
  \A i \in 1..Len(es) :
    /\ TwoDecimal(es[i].amount)
    /\ \A j \in 1..Len(es[i].splits) : TwoDecimal(es[i].splits[j].amount)

\* C27: for every list of expenses of 2-decimal amounts and every viewer V,
\* the totalPaid - totalOwed of getSettlementBreakdown, in cents, is V's
\* balance from calculateBalances(expenses, [V]), which is a whole number of
\* cents and the same for every member list; getBack is max(0, that
\* balance), so it is the balance when V is owed and 0 when V owes.
C27_ViewsAgree ==
  (IsBreakdown /\ TwoDecimalList(call.expenses))
    => LET v   == call.currentUserId
           bal == calculateBalances(call.expenses, <<v>>)[v]
       IN  /\ TwoDecimal(bal)
           /\ AmountCents(call.ret.totalPaid) - AmountCents(call.ret.totalOwed)
                = AmountCents(bal)
           /\ round2(FSub(call.ret.totalPaid, call.ret.totalOwed)) = bal
           /\ call.ret.getBack = MathMax(Zero, bal)
           /\ \A ml \in MemberLists :
                BalanceOf(calculateBalances(call.expenses, ml), v) = bal

\* C27 witness: U1 paid 0.30 and owes 0.10 of the 0.30 U2 paid; the balance
\* of U1 is 0.20 and getBack is 0.20.
C27_Witness ==
  /\ IsBreakdown
  /\ TwoDecimalList(call.expenses)
  /\ Len(call.expenses) = 2
  /\ call.currentUserId = "U1"
  /\ calculateBalances(call.expenses, <<"U1">>)["U1"] = FromCents(20)
  /\ GiveCents(call.expenses, "U1", "U2") = 10
  /\ call.ret.getBack = FromCents(20)

\* the amounts a list holds for user u: no amount, or one
EntryAmounts(list, u) ==
  {list[i].amount : i \in {k \in 1..Len(list) : list[k].userId = u}}

\* C28: for every list of expenses and every two distinct users A and B,
\* the entry for B in A's youGive and the entry for A in B's youGet are
\* both absent or both present with the same amount; likewise A's youGet
\* and B's youGive.
C28_PairwiseSymmetry ==
  IsBreakdown =>
    \A b \in Users \ {call.currentUserId} :
      LET a     == call.currentUserId
          other == getSettlementBreakdown(call.expenses, b)
      IN  /\ EntryAmounts(call.ret.youGive, b) = EntryAmounts(other.youGet, a)
          /\ EntryAmounts(call.ret.youGet, b) = EntryAmounts(other.youGive, a)

\* C28 witness: U1 paid 0.70 with 0.60 for U2 and 0.125 for U2 alone; U2's
\* youGive lists U1 with 0.73 and U1's youGet lists U2 with 0.73, and U3
\* is in neither list.
C28_Witness ==
  /\ IsBreakdown
  /\ call.currentUserId = "U2"
  /\ Len(call.expenses) = 2
  /\ EntryAmounts(call.ret.youGive, "U1") = {FromCents(73)}
  /\ EntryAmounts(getSettlementBreakdown(call.expenses, "U1").youGet, "U2")
       = {FromCents(73)}
  /\ EntryAmounts(call.ret.youGive, "U3") = {}

\* the splits of the expense, none negative, sum exactly to its amount
CoveredExactly(e) ==
  /\ ~HasNegativeSplit(e.splits)
  /\ SplitsTotalMills(e.splits) = AmountMills(e.amount)

\* the same with every split and the amount rounded to cents
CoveredExactlyInCents(e) ==
  /\ ~HasNegativeSplit(e.splits)
  /\ SplitsTotalCents(e.splits) = AmountCents(e.amount)

\* C29 as stated: for every list of expenses whose non-negative splits sum
\* exactly to their amounts and every viewer V, (sum of youGet) - (sum of
\* youGive) equals V's balance from calculateBalances.
C29_AsStated ==
  (IsBreakdown /\ \A i \in 1..Len(call.expenses) : CoveredExactly(call.expenses[i]))
    => LET v == call.currentUserId
       IN  ListCents(call.ret.youGet) - ListCents(call.ret.youGive)
             = AmountCents(calculateBalances(call.expenses, <<v>>)[v])

\* C29 amended: for every list of expenses whose non-negative splits, each
\* rounded to cents, sum exactly to the amount rounded to cents (as they do
\* when the splits sum to the amount and every amount has 2 decimals), and
\* every viewer V, (sum of youGet) - (sum of youGive) equals V's balance
\* from calculateBalances.
C29_Reconciles ==
  (IsBreakdown
     /\ \A i \in 1..Len(call.expenses) : CoveredExactlyInCents(call.expenses[i]))
    => LET v   == call.currentUserId
           bal == calculateBalances(call.expenses, <<v>>)[v]
       IN  /\ TwoDecimal(bal)
           /\ ListCents(call.ret.youGet) - ListCents(call.ret.youGive)
                = AmountCents(bal)

\* C29 witness: U1 paid 0.70 with 0.60 for U2 and owes U2 0.10 of 0.30;
\* youGet sums to 0.60, youGive to 0.10, and the balance of U1 is 0.50.
C29_Witness ==
  /\ IsBreakdown
  /\ call.currentUserId = "U1"
  /\ \A i \in 1..Len(call.expenses) : CoveredExactlyInCents(call.expenses[i])
  /\ ListCents(call.ret.youGet) = 60
  /\ ListCents(call.ret.youGive) = 10
  /\ calculateBalances(call.expenses, <<"U1">>)["U1"] = FromCents(50)

\* the room an expense of the list belongs to (the group of its row)
RoomOf(e) == e.id[1]

\* C30 as stated: whenever no load is being shown as under way, the
\* in-memory expenses list holds only expenses of the selected room (and is
\* empty when no room is selected), under every interleaving of room
\* selection, loads, refreshExpenses, addExpense and removeExpense
\* completions.
C30_AsStated ==
  expensesLoading = FALSE =>
    \A i \in 1..Len(expenses) : RoomOf(expenses[i]) = room

=============================================================================
